---- MODULE Spec2Model ----
(***************************************************************************)
(* devtale command line driver (src/cli.py): main dispatches to            *)
(* process_file, process_folder or process_repository.  Every call of a    *)
(* collaborator (splitter, extractor, merger, unit documenter, fuser,      *)
(* summarizer, aggregator, budget manager) is one step of the state        *)
(* machine; the collaborator's answer is chosen nondeterministically from  *)
(* the answers its contract allows.                                        *)
(*                                                                         *)
(* File system view: tale_file is the content of <output>/<file_name>.json *)
(* and fused_file the content of <output>/<file_name> for the file being   *)
(* processed.  Every file is visited once per run and these two paths are  *)
(* read and written only while that file is processed, so their content is *)
(* drawn when the file is reached.                                         *)
(***************************************************************************)
EXTENDS Naturals, Sequences, FiniteSets, TLC

\* ------------------------------------------------------------------ bounds
MaxFiles == 3        \* entries os.listdir yields for one folder
MaxBigDocs == 2      \* coarse chunks of one file (chunk_size=10000)
MaxShortDocs == 2    \* fine chunks of one file (chunk_size=3000)
CallCost == 4        \* spend registered for one budgeted generative call
MaxRuns == 2         \* runs of main over the same file, one after the other

\* ------------------------------------------------------- program constants
max_budget == 10

\* -------------------------------------------------------- file names, paths
\* A file name is its stem and its extension; os.path.splitext(name)[-1].
splitext(name) == name.ext

\* os.listdir(folder_path): the folder's entries in listing order.
Listing ==
    << [stem |-> "a", ext |-> ".py"],
       [stem |-> "notes", ext |-> ".txt"],
       [stem |-> "b", ext |-> ".js"],
       [stem |-> "Makefile", ext |-> ""] >>

FileNames == { Listing[i] : i \in 1..Len(Listing) }

ALLOWED_EXTENSIONS == {".py", ".js", ""}

\* Extensions LANGUAGES has a splitter language for.
LANGUAGES == {".py", ".js"}

\* Extensions fuse_documentation has an aggregator for (.py, .php, .go).
AggregatorExts == {".py", ".php", ".go"}

\* A path is the sequence of its "/"-separated components: "repo/" is
\* <<"repo", "">>, "repo/pkg" is <<"repo", "pkg">>.
endswith_slash(path) == Len(path) >= 2 /\ path[Len(path)] = ""

\* path.count("/")
count_slash(path) == Len(path) - 1

\* os.path.basename(path)
basename(path) == path[Len(path)]

\* os.path.abspath / normpath of a folder path: no trailing separator.
normpath(path) == IF endswith_slash(path) THEN SubSeq(path, 1, Len(path) - 1) ELSE path

\* os.path.relpath(path, start) for a path at or below start.
relpath(path, start) ==
    IF Len(normpath(path)) = Len(normpath(start))
        THEN <<".">>
        ELSE SubSeq(normpath(path), Len(normpath(start)) + 1, Len(normpath(path)))

\* main's path argument and the folders build_project_tree's file_paths lie in
\* (os.path.dirname of each path).
root_path == <<"repo">>

ProjectFolders == { <<"repo", "pkg">>, <<"repo">> }

\* sorted(folders, key=lambda path: path.count("/")): the orders sorted() can give.
SortedByDepth(S) ==
    { seq \in [1..Cardinality(S) -> S] :
        /\ \A i, j \in 1..Cardinality(S) : i # j => seq[i] # seq[j]
        /\ \A i, j \in 1..Cardinality(S) : i < j => count_slash(seq[i]) <= count_slash(seq[j]) }

\* ------------------------------------------------------------- collaborators
\* What extract_code_elements may return for coarse chunk i: nothing, or an
\* element set with a summary and the classes and methods found in the chunk.
ElementSet(i, cls, mth) == [summary |-> i, classes |-> cls, methods |-> mth]

ExtractorResponses(i) ==
    { <<>>,
      <<ElementSet(i, {}, {})>>,
      <<ElementSet(i, {"C"}, {})>>,
      <<ElementSet(i, {}, {"m"})>> }

\* prepare_code_elements: summaries concatenated in order, elements merged by name.
prepare_code_elements(sets) ==
    [ summary |-> [k \in 1..Len(sets) |-> sets[k].summary],
      classes |-> UNION { sets[k].classes : k \in 1..Len(sets) },
      methods |-> UNION { sets[k].methods : k \in 1..Len(sets) } ]

\* What get_unit_tale may return for fine chunk j: a fragment about an element
\* name; "?" is a malformed fragment or one about no known element.
UnitTales(j) == { [chunk |-> j, about |-> a] : a \in {"C", "m", "?"} }

KnownElements(tree) == tree.classes \cup tree.methods

FirstAbout(fragments, e) ==
    CHOOSE k \in 1..Len(fragments) :
        /\ fragments[k].about = e
        /\ \A l \in 1..(k - 1) : fragments[l].about # e

\* fuse_tales: every known element gets its first fragment in chunk order; a
\* fragment about no known element goes to errors.  Returns <<tale, errors>>.
fuse_tales(fragments, tree) ==
    LET known == KnownElements(tree)
        IsKnown(f) == f.about \in known
        IsError(f) == f.about \notin known
        documented == { e \in known : \E k \in 1..Len(fragments) : fragments[k].about = e }
    IN  << [docs |-> { <<e, fragments[FirstAbout(fragments, e)].chunk>> : e \in documented }],
           SelectSeq(fragments, IsError) >>

\* redact_tale_information(...)["text"]: the summary text.
SummaryTexts == {"", "D"}

\* Per-file results a previous run may have left in <output>/<file_name>.json.
CachedTales ==
    { [docs |-> {}, file_docstring |-> ""],
      [docs |-> {<<"C", 1>>}, file_docstring |-> "D"] }

\* litellm.BudgetManager: one budget per user (session).
create_budget(total, user) == [user |-> user, total_budget |-> total, current_cost |-> 0]

\* The check a budgeted call makes before it is issued.
BudgetExceeded(b) == b.current_cost > b.total_budget

update_cost(b) == [b EXCEPT !.current_cost = @ + CallCost]

\* The run's total spend is followed up to this amount.
SpendCap == max_budget + 2 * CallCost

total_spend(before) == IF before + CallCost > SpendCap THEN SpendCap ELSE before + CallCost

\* str(uuid.uuid4()): an id no other process_file call of the run has; the call
\* is identified by the folder and the listing entry it is made for.
uuid4(folder_index, entry_index) == <<folder_index, entry_index>>

\* ------------------------------------------------------------------- state
VARIABLES
    mode, fuse, debug,          \* main's arguments: path kind, --fuse, --debug
    pc,                         \* position of the run
    folders, fidx,              \* process_repository: sorted folders, loop index
    folder_tales,               \* process_repository: folder_tales["folders"]
    folders_readmes,            \* process_repository: folders_readmes
    folder_readme, folder_tale, \* process_repository: last unpacked process_folder result
    folder_path,                \* folder being processed
    folder_full_name,           \* process_folder: folder_full_name, <<>> is None
    failed,                     \* <<file, exception>> of this folder's failed process_file calls
    folder_result,              \* what process_folder returned or raised
    kidx,                       \* process_folder: entries of os.listdir consumed
    tales,                      \* process_folder: tales
    file_name,                  \* process_file: file being processed
    code,                       \* process_file: the file's text
    tale_file,                  \* <output>/<file_name>.json: <<>> or <<record>>
    fused_file,                 \* <output>/<file_name>: "absent", "old", "truncated", "fused"
    entry_tale_file,            \* tale_file when process_file was entered
    entry_fused_file,           \* fused_file when process_file was entered
    big_docs, short_docs,       \* process_file: the two partitions
    idx,                        \* process_file: loop index
    extracted,                  \* what the extractor returned for each coarse chunk so far
    code_elements,              \* process_file: code_elements
    code_elements_dict,         \* process_file: code_elements_dict, <<>> before the merge
    code_elements_copy,         \* process_file: code_elements_copy, <<>> before the merge
    tales_list,                 \* process_file: tales_list
    summaries,                  \* process_file: summaries, <<>> before the top-level summary
    tale, errors,               \* process_file: fuse_tales' result, tale is <<>> or <<record>>
    result,                     \* what process_file returned or raised
    trace,                      \* collaborator calls of the current process_file, in order
    session_id,                 \* process_file: session_id, <<>> before the first
    budget_manager,             \* the budget of the latest session, <<>> before the first
    spent,                      \* spend registered over the whole run, up to SpendCap
    last_call,                  \* the latest generative call and whether the budget was consulted
    earlier_runs                \* file mode: how each earlier run of main over this file ended

fileVars ==
    << file_name, code, tale_file, fused_file, entry_tale_file, entry_fused_file,
       big_docs, short_docs, idx, extracted, code_elements, code_elements_dict,
       code_elements_copy, tales_list, summaries, tale, errors, result, trace >>

folderVars == << folder_path, folder_full_name, failed, folder_result, kidx, tales >>

repoVars == << folders, fidx, folder_tales, folders_readmes, folder_readme, folder_tale >>

budgetVars == << session_id, budget_manager, spent >>

argVars == << mode, fuse, debug >>

vars ==
    << argVars, pc, repoVars, folderVars, fileVars, budgetVars, last_call, earlier_runs >>

NoFile == [stem |-> "", ext |-> ""]

Pending == [status |-> "pending", value |-> <<>>, error |-> ""]

Returned(v) == [status |-> "returned", value |-> <<v>>, error |-> ""]

Raised(e) == [status |-> "raised", value |-> <<>>, error |-> e]

NoCall == [kind |-> "none", budget_consulted |-> TRUE]

Init ==
    /\ mode \in {"file", "folder", "repository"}
    /\ fuse \in BOOLEAN
    /\ debug \in BOOLEAN
    /\ pc = "main"
    /\ folders = <<>>
    /\ fidx = 0
    /\ folder_tales = <<>>
    /\ folders_readmes = <<>>
    /\ folder_readme = <<>>
    /\ folder_tale = <<>>
    /\ folder_path = <<>>
    /\ folder_full_name = <<>>
    /\ failed = {}
    /\ folder_result = Pending
    /\ kidx = 0
    /\ tales = <<>>
    /\ file_name = NoFile
    /\ code = ""
    /\ tale_file = <<>>
    /\ fused_file = "absent"
    /\ entry_tale_file = <<>>
    /\ entry_fused_file = "absent"
    /\ big_docs = <<>>
    /\ short_docs = <<>>
    /\ idx = 0
    /\ extracted = <<>>
    /\ code_elements = <<>>
    /\ code_elements_dict = <<>>
    /\ code_elements_copy = <<>>
    /\ summaries = <<>>
    /\ tales_list = <<>>
    /\ tale = <<>>
    /\ errors = <<>>
    /\ result = Pending
    /\ trace = <<>>
    /\ session_id = <<>>
    /\ budget_manager = <<>>
    /\ spent = 0
    /\ last_call = NoCall
    /\ earlier_runs = <<>>

\* ------------------------------------------------------------ process_file
\* The locals of a process_file call that has not read anything yet.
FreshLocals ==
    /\ code' = ""
    /\ big_docs' = <<>>
    /\ short_docs' = <<>>
    /\ idx' = 0
    /\ extracted' = <<>>
    /\ code_elements' = <<>>
    /\ code_elements_dict' = <<>>
    /\ code_elements_copy' = <<>>
    /\ summaries' = <<>>
    /\ tales_list' = <<>>
    /\ tale' = <<>>
    /\ errors' = <<>>
    /\ result' = Pending
    /\ trace' = <<>>

\* process_file(name, ...) is called: the two output paths of this file hold
\* whatever an earlier run left there.
EnterFile(name) ==
    /\ file_name' = name
    /\ \E t \in {<<>>} \cup { <<c>> : c \in CachedTales } :
        /\ tale_file' = t
        /\ entry_tale_file' = t
    /\ \E f \in {"absent", "old"} :
        /\ fused_file' = f
        /\ entry_fused_file' = f
    /\ FreshLocals

\* process_file is over and its locals are gone.
LeaveFile ==
    /\ file_name' = NoFile
    /\ tale_file' = <<>>
    /\ fused_file' = "absent"
    /\ entry_tale_file' = <<>>
    /\ entry_fused_file' = "absent"
    /\ FreshLocals

FileReturn(r) ==
    /\ result' = r
    /\ pc' = "file_ret"

localsButResult ==
    << big_docs, short_docs, idx, extracted, code_elements, code_elements_dict,
       code_elements_copy, tales_list, summaries, tale, errors >>

outputFiles == << tale_file, fused_file, entry_tale_file, entry_fused_file >>

\* if debug: return {"file_docstring": "-"}
FileDebug ==
    /\ pc = "file_start"
    /\ debug
    /\ FileReturn(Returned([file_docstring |-> "-"]))
    /\ UNCHANGED << argVars, earlier_runs, repoVars, folderVars, budgetVars, last_call, file_name,
                    code, outputFiles, localsButResult, trace >>

\* code = file.read(); if not code: return {"file_docstring": ""}
FileEmpty ==
    /\ pc = "file_start"
    /\ ~debug
    /\ code' = ""
    /\ FileReturn(Returned([file_docstring |-> ""]))
    /\ UNCHANGED << argVars, earlier_runs, repoVars, folderVars, budgetVars, last_call, file_name,
                    outputFiles, localsButResult, trace >>

\* fuse_documentation is called whatever the flag.
fuse_always(flag) == TRUE

\* The fuse flag as process_file tests it before fuse_documentation.
fuse_requested(flag) == flag

\* A wrong path is tested and the persisted result is never found.
cache_hit_never(file_content) == FALSE

\* os.path.exists(save_path)
cache_hit(file_content) == file_content # <<>>

\* if os.path.exists(save_path): found_tale = json.load(file);
\* if fuse: fuse_documentation(...); return found_tale
FileCached ==
    /\ pc = "file_start"
    /\ ~debug
    /\ code' = "src"
    /\ cache_hit(tale_file)
    /\ tale' = tale_file
    /\ IF fuse_requested(fuse)
        THEN /\ pc' = "fuse_doc"
             /\ result' = Pending
        ELSE FileReturn(Returned(tale_file[1]))
    /\ UNCHANGED << argVars, earlier_runs, repoVars, folderVars, budgetVars, last_call, file_name,
                    outputFiles, big_docs, short_docs, idx, extracted, code_elements,
                    code_elements_dict, code_elements_copy, tales_list, summaries, errors,
                    trace >>

\* if not file_ext: file_docstring = redact_tale_information("unknow-top-level", ...)
FileUnknown ==
    /\ pc = "file_start"
    /\ ~debug
    /\ code' = "src"
    /\ ~cache_hit(tale_file)
    /\ splitext(file_name) = ""
    /\ trace' = Append(trace, "unknown_summary")
    /\ last_call' = [kind |-> "unknow-top-level", budget_consulted |-> FALSE]
    /\ \/ FileReturn(Raised("ServiceError"))
       \/ \E text \in SummaryTexts : FileReturn(Returned([file_docstring |-> text]))
    /\ UNCHANGED << argVars, earlier_runs, repoVars, folderVars, budgetVars, file_name,
                    outputFiles, localsButResult >>

\* big_docs = split_code(...); short_docs = split_code(...);
\* session_id = str(uuid.uuid4()); budget_manager.create_budget(max_budget, session_id)
FileSplit ==
    /\ pc = "file_start"
    /\ ~debug
    /\ code' = "src"
    /\ ~cache_hit(tale_file)
    /\ splitext(file_name) # ""
    /\ IF splitext(file_name) \notin LANGUAGES
        THEN /\ FileReturn(Raised("KeyError"))
             /\ UNCHANGED << big_docs, short_docs, trace, budgetVars >>
        ELSE /\ \E nb \in 1..MaxBigDocs : big_docs' = [i \in 1..nb |-> i]
             /\ \E ns \in 1..MaxShortDocs : short_docs' = [j \in 1..ns |-> j]
             /\ trace' = Append(trace, "split")
             /\ session_id' = uuid4(fidx, kidx)
             /\ budget_manager' = <<create_budget(max_budget, uuid4(fidx, kidx))>>
             /\ spent' = spent
             /\ pc' = "extract"
             /\ result' = Pending
    /\ UNCHANGED << argVars, earlier_runs, repoVars, folderVars, last_call, file_name, outputFiles,
                    idx, extracted, code_elements, code_elements_dict,
                    code_elements_copy, tales_list, summaries, tale, errors >>

\* An empty answer resets the list instead of being skipped.
collect_reset(elements, elements_set) ==
    IF elements_set # <<>> THEN elements \o elements_set ELSE <<>>

\* if elements_set: code_elements.append(elements_set)
collect(elements, elements_set) ==
    IF elements_set # <<>> THEN elements \o elements_set ELSE elements

\* The loop is left after its first iteration.
loop_done_early(i, docs) == i >= 1 \/ i = Len(docs)

\* The for loop over docs has run for every chunk.
loop_done(i, docs) == i = Len(docs)

\* for idx, doc in enumerate(big_docs):
\*     elements_set = extract_code_elements(doc, budget_manager, session_id)
\*     if elements_set: code_elements.append(elements_set)
Extract ==
    /\ pc = "extract"
    /\ ~loop_done(idx, big_docs)
    /\ IF BudgetExceeded(budget_manager[1])
        THEN /\ FileReturn(Raised("BudgetExceeded"))
             /\ UNCHANGED << idx, extracted, code_elements, trace, budgetVars, last_call >>
        ELSE /\ \E r \in ExtractorResponses(big_docs[idx + 1]) :
                /\ extracted' = Append(extracted, r)
                /\ code_elements' = collect(code_elements, r)
             /\ idx' = idx + 1
             /\ trace' = Append(trace, "extract")
             /\ budget_manager' = <<update_cost(budget_manager[1])>>
             /\ spent' = total_spend(spent)
             /\ session_id' = session_id
             /\ last_call' = [kind |-> "extract", budget_consulted |-> TRUE]
             /\ UNCHANGED << pc, result >>
    /\ UNCHANGED << argVars, earlier_runs, repoVars, folderVars, file_name, code, outputFiles,
                    big_docs, short_docs, code_elements_dict, code_elements_copy,
                    tales_list, summaries, tale, errors >>

\* code_elements_copy: the merged tree without "summary" and without an empty
\* "classes" or "methods" list.
clean_copy(tree) ==
    [ k \in { x \in {"classes", "methods"} : tree[x] # {} } |-> tree[k] ]

\* code_elements_copy names the merged tree itself: the pops reach it.
after_cleaning_alias(tree) == clean_copy(tree)

\* code_elements_dict once the copy was cleaned: the copy is a deepcopy, the
\* pops on it do not reach the tree.
after_cleaning(tree) == tree

\* code_elements_dict = prepare_code_elements(code_elements);
\* code_elements_copy = copy.deepcopy(code_elements_dict); clean
Merge ==
    /\ pc = "extract"
    /\ loop_done(idx, big_docs)
    /\ code_elements_dict' = <<after_cleaning(prepare_code_elements(code_elements))>>
    /\ code_elements_copy' = <<clean_copy(prepare_code_elements(code_elements))>>
    /\ trace' = Append(trace, "merge")
    /\ idx' = 0
    /\ pc' = "unit"
    /\ UNCHANGED << argVars, earlier_runs, repoVars, folderVars, budgetVars, last_call, file_name,
                    code, outputFiles, big_docs, short_docs, extracted, code_elements,
                    tales_list, summaries, tale, errors, result >>

\* The merged tree is tested in place of the cleaned copy: it always has keys.
HasElements_uncleaned(copy) == TRUE

\* if code_elements_copy: (a dict is true when it has a key)
HasElements(copy) == DOMAIN copy # {}

\* for idx, doc in enumerate(short_docs):
\*     tale = get_unit_tale(doc, code_elements_copy, ..., budget_manager, session_id)
\*     tales_list.append(tale)
UnitTale ==
    /\ pc = "unit"
    /\ HasElements(code_elements_copy[1])
    /\ ~loop_done(idx, short_docs)
    /\ IF BudgetExceeded(budget_manager[1])
        THEN /\ FileReturn(Raised("BudgetExceeded"))
             /\ UNCHANGED << idx, tales_list, trace, budgetVars, last_call >>
        ELSE /\ \E t \in UnitTales(short_docs[idx + 1]) : tales_list' = Append(tales_list, t)
             /\ idx' = idx + 1
             /\ trace' = Append(trace, "unit")
             /\ budget_manager' = <<update_cost(budget_manager[1])>>
             /\ spent' = total_spend(spent)
             /\ session_id' = session_id
             /\ last_call' = [kind |-> "unit", budget_consulted |-> TRUE]
             /\ UNCHANGED << pc, result >>
    /\ UNCHANGED << argVars, earlier_runs, repoVars, folderVars, file_name, code, outputFiles,
                    big_docs, short_docs, extracted, code_elements, code_elements_dict,
                    code_elements_copy, summaries, tale, errors >>

\* Unmatched fragments fail the file.
FusionOutcome_raise(errs) == IF errs # <<>> THEN Raised("FusionMismatch") ELSE Pending

\* if len(errors) > 0: logger.info(...)   -- and processing goes on
FusionOutcome(errs) == Pending

\* tale, errors = fuse_tales(tales_list, code, code_elements_dict)
FuseTales ==
    /\ pc = "unit"
    /\ ~HasElements(code_elements_copy[1]) \/ loop_done(idx, short_docs)
    /\ LET fused == fuse_tales(tales_list, code_elements_dict[1])
           out == FusionOutcome(fused[2])
       IN  /\ tale' = <<fused[1]>>
           /\ errors' = fused[2]
           /\ result' = out
           /\ pc' = IF out.status = "pending" THEN "summary" ELSE "file_ret"
    /\ trace' = Append(trace, "fuse_tales")
    /\ UNCHANGED << argVars, earlier_runs, repoVars, folderVars, budgetVars, last_call, file_name,
                    code, outputFiles, big_docs, short_docs, idx, extracted,
                    code_elements, code_elements_dict, code_elements_copy, tales_list,
                    summaries >>

\* The fused tale is dumped to <file>.json before the top-level summary is asked for.
tale_file_at_summary_dumped(file_content, fused) == fused

\* <file>.json while the top-level summary is asked for: json.dump comes after it.
tale_file_at_summary(file_content, fused) == file_content

\* summaries = split_text(str(code_elements_dict["summary"]), chunk_size=9000)
\* tale["file_docstring"] = redact_tale_information("top-level", summaries)["text"]
TopLevel ==
    /\ pc = "summary"
    /\ trace' = Append(trace, "top_summary")
    /\ summaries' = <<code_elements_dict[1].summary>>
    /\ last_call' = [kind |-> "top-level", budget_consulted |-> FALSE]
    /\ \/ /\ FileReturn(Raised("ServiceError"))
          /\ UNCHANGED tale
       \/ /\ \E text \in SummaryTexts :
                tale' = << [docs |-> tale[1].docs, file_docstring |-> text] >>
          /\ pc' = "save"
          /\ UNCHANGED result
    /\ tale_file' = tale_file_at_summary(tale_file, tale)
    /\ UNCHANGED << argVars, earlier_runs, repoVars, folderVars, budgetVars, file_name, code,
                    fused_file, entry_tale_file, entry_fused_file, big_docs, short_docs, idx, extracted, code_elements,
                    code_elements_dict, code_elements_copy, tales_list, errors >>

\* with open(save_path, "w") as json_file: json.dump(tale, json_file, indent=2)
\* if fuse: fuse_documentation(...); return tale
Save ==
    /\ pc = "save"
    /\ tale_file' = tale
    /\ trace' = Append(trace, "save")
    /\ IF fuse_requested(fuse)
        THEN /\ pc' = "fuse_doc"
             /\ UNCHANGED result
        ELSE FileReturn(Returned(tale[1]))
    /\ UNCHANGED << argVars, earlier_runs, repoVars, folderVars, budgetVars, last_call, file_name,
                    code, fused_file, entry_tale_file, entry_fused_file,
                    localsButResult >>

\* The file is opened for writing before aggregator.document runs.
FusedFileAfter_open_first(documented, before) == IF documented THEN "fused" ELSE "truncated"

\* What <output>/<file_name> holds after fuse_documentation: aggregator.document
\* runs before the file is opened for writing.
FusedFileAfter(documented, before) == IF documented THEN "fused" ELSE before

\* fuse_documentation(code, tale, output_path, file_name, file_ext)
FuseDocumentation ==
    /\ pc = "fuse_doc"
    /\ IF splitext(file_name) \notin AggregatorExts
        THEN /\ FileReturn(Raised("UnboundLocalError"))
             /\ fused_file' = FusedFileAfter(FALSE, fused_file)
             /\ trace' = Append(trace, "fuse_documentation")
        ELSE \/ /\ FileReturn(Raised("RewriteIntegrityFailure"))
                /\ fused_file' = FusedFileAfter(FALSE, fused_file)
                /\ trace' = trace \o <<"fuse_documentation", "aggregate">>
             \/ /\ FileReturn(Returned(tale[1]))
                /\ fused_file' = FusedFileAfter(TRUE, fused_file)
                /\ trace' = trace \o <<"fuse_documentation", "aggregate", "write">>
    /\ UNCHANGED << argVars, earlier_runs, repoVars, folderVars, budgetVars, last_call, file_name,
                    code, tale_file, entry_tale_file, entry_fused_file,
                    localsButResult >>

\* -------------------------------------------------------------------- main
\* elif os.path.isfile(path): process_file(file_path=path, ...)
MainFile ==
    /\ pc = "main"
    /\ mode = "file"
    /\ \E name \in FileNames : EnterFile(name)
    /\ pc' = "file_start"
    /\ UNCHANGED << argVars, earlier_runs, repoVars, folderVars, budgetVars, last_call >>

\* process_file returns to main, or its exception leaves main.
MainFileReturn ==
    /\ pc = "file_ret"
    /\ mode = "file"
    /\ pc' = IF result.status = "raised" THEN "aborted" ELSE "done"
    /\ UNCHANGED << argVars, earlier_runs, repoVars, folderVars, fileVars, budgetVars, last_call >>

\* main is run again over the same file with the same flags: a new process,
\* with the output folder as the run before left it.
MainFileAgain ==
    /\ pc \in {"done", "aborted"}
    /\ mode = "file"
    /\ Len(earlier_runs) + 1 < MaxRuns
    /\ earlier_runs' = Append(earlier_runs, [status |-> result.status, error |-> result.error])
    /\ pc' = "file_start"
    /\ entry_tale_file' = tale_file
    /\ entry_fused_file' = fused_file
    /\ FreshLocals
    /\ session_id' = <<>>
    /\ budget_manager' = <<>>
    /\ spent' = 0
    /\ last_call' = NoCall
    /\ UNCHANGED << argVars, repoVars, folderVars, file_name, tale_file, fused_file >>

\* ---------------------------------------------------------- process_folder
\* process_folder(folder_path, ..., folder_full_name) is called.
EnterFolder(path, full_name) ==
    /\ folder_path' = path
    /\ folder_full_name' = full_name
    /\ failed' = {}
    /\ folder_result' = Pending
    /\ kidx' = 0
    /\ tales' = <<>>

\* for file_name in os.listdir(folder_path):
\*     if os.path.isfile(file_path) and splitext(file_name)[1] in ALLOWED_EXTENSIONS:
\*         file_tale = process_file(file_path, save_path, model_name, fuse, debug)
FolderNextFile ==
    /\ pc = "folder_loop"
    /\ kidx < MaxFiles
    /\ kidx < Len(Listing)
    /\ kidx' = kidx + 1
    /\ IF splitext(Listing[kidx + 1]) \in ALLOWED_EXTENSIONS
        THEN /\ EnterFile(Listing[kidx + 1])
             /\ pc' = "file_start"
        ELSE UNCHANGED << pc, fileVars >>
    /\ UNCHANGED << argVars, earlier_runs, repoVars, folder_path, folder_full_name, failed,
                    folder_result, tales, budgetVars, last_call >>

\* try: file_tale = process_file(...)  except Exception: file_tale = None
file_tale_of(r) == IF r.status = "raised" THEN <<>> ELSE r.value

\* The handler catches one kind of exception only; the budget's goes through.
file_failure_propagates_budget(r) == r.error = "BudgetExceeded"

\* What the handler does with a process_file exception: it is logged, the loop goes on.
file_failure_propagates(r) == FALSE

\* folder_full_name as tales names the folder (lines 194-200).
entry_folder_name(full_name, path) ==
    LET name == IF full_name = <<>> THEN <<basename(normpath(path))>> ELSE full_name
    IN  IF name = <<".">> THEN <<".", "">> ELSE name

\* tales with the file's entry appended to the folder's entry (lines 202-230).
append_file_entry(ts, folder_name, name, description) ==
    LET entry == [file_name |-> name, file_description |-> description]
    IN  IF \E k \in 1..Len(ts) : ts[k].folder_name = folder_name
            THEN [ k \in 1..Len(ts) |->
                     IF ts[k].folder_name = folder_name
                        /\ \A l \in 1..(k - 1) : ts[l].folder_name # folder_name
                         THEN [ts[k] EXCEPT !.folder_files = Append(@, entry)]
                         ELSE ts[k] ]
            ELSE Append(ts, [folder_name |-> folder_name, folder_files |-> <<entry>>])

\* process_file is over: the except clause, then the entry for the folder's file list.
FolderFileReturn ==
    /\ pc = "file_ret"
    /\ mode # "file"
    /\ IF result.status = "raised" /\ file_failure_propagates(result)
        THEN /\ folder_result' = Raised(result.error)
             /\ pc' = "folder_ret"
             /\ UNCHANGED << tales, folder_full_name, failed >>
        ELSE /\ pc' = "folder_loop"
             /\ failed' = IF result.status = "raised"
                            THEN failed \cup {<<file_name, result.error>>}
                            ELSE failed
             /\ LET file_tale == file_tale_of(result)
                IN  IF file_tale # <<>> /\ file_tale[1].file_docstring # ""
                        THEN /\ folder_full_name' = entry_folder_name(folder_full_name, folder_path)
                             /\ tales' = append_file_entry(tales,
                                            entry_folder_name(folder_full_name, folder_path),
                                            file_name, file_tale[1].file_docstring)
                        ELSE UNCHANGED << tales, folder_full_name >>
             /\ UNCHANGED folder_result
    /\ LeaveFile
    /\ UNCHANGED << argVars, earlier_runs, repoVars, folder_path, kidx, budgetVars, last_call >>

ReturnedNone == [status |-> "returned", value |-> <<>>, error |-> ""]

\* The debug test comes after the folder's summaries.
debug_return_late(flag) == FALSE

\* if debug: ... return "-", "-"   -- tested before the folder's summaries
debug_return(flag) == flag

\* The listing is exhausted: if debug: return "-", "-"; if tales: two summaries,
\* folder_level.json and README.md are written, return folder_readme, folder_overview;
\* return None
FolderFinish ==
    /\ pc = "folder_loop"
    /\ pc' = "folder_ret"
    /\ IF debug_return(debug)
        THEN /\ folder_result' = Returned(<<"-", "-">>)
             /\ UNCHANGED last_call
        ELSE IF tales # <<>>
            THEN \/ /\ folder_result' = Raised("ServiceError")
                    /\ \E kind \in {"folder-level", "folder-description"} :
                         last_call' = [kind |-> kind, budget_consulted |-> FALSE]
                 \/ /\ \E readme \in SummaryTexts, overview \in SummaryTexts :
                         folder_result' = Returned(<<readme, overview>>)
                    /\ last_call' = [kind |-> "folder-description", budget_consulted |-> FALSE]
            ELSE /\ folder_result' = ReturnedNone
                 /\ UNCHANGED last_call
    /\ UNCHANGED << argVars, earlier_runs, repoVars, folder_path, folder_full_name, failed, kidx,
                    tales, fileVars, budgetVars >>

\* if os.path.isdir(path): ... else: process_folder(folder_path=path, ...)
MainFolder ==
    /\ pc = "main"
    /\ mode = "folder"
    /\ EnterFolder(root_path, <<>>)
    /\ pc' = "folder_loop"
    /\ UNCHANGED << argVars, earlier_runs, repoVars, fileVars, budgetVars, last_call >>

\* process_folder returns to main, or its exception leaves main.
MainFolderReturn ==
    /\ pc = "folder_ret"
    /\ mode = "folder"
    /\ pc' = IF folder_result.status = "raised" THEN "aborted" ELSE "done"
    /\ UNCHANGED << argVars, earlier_runs, repoVars, folderVars, fileVars, budgetVars, last_call >>

\* ------------------------------------------------------ process_repository
\* if recursive: process_repository(root_path=path, ...): up to the folder loop.
MainRepository ==
    /\ pc = "main"
    /\ mode = "repository"
    /\ folders' \in SortedByDepth(ProjectFolders)
    /\ fidx' = 0
    /\ folder_tales' = <<>>
    /\ folders_readmes' = <<>>
    /\ pc' = "repo_loop"
    /\ UNCHANGED << argVars, earlier_runs, folder_readme, folder_tale, folderVars, fileVars,
                    budgetVars, last_call >>

\* if not folder_path.endswith("/"): folder_path += "/"
with_slash(path) == IF endswith_slash(path) THEN path ELSE Append(path, "")

\* for folder_path in folders: ... process_folder(folder_path=folder_path, ...)
RepoNextFolder ==
    /\ pc = "repo_loop"
    /\ fidx < Len(folders)
    /\ fidx' = fidx + 1
    /\ EnterFolder(with_slash(folders[fidx + 1]),
                   relpath(with_slash(folders[fidx + 1]), root_path))
    /\ pc' = "folder_loop"
    /\ UNCHANGED << argVars, earlier_runs, folders, folder_tales, folders_readmes, folder_readme,
                    folder_tale, fileVars, budgetVars, last_call >>

\* The entry folder_tales["folders"] gets for a folder with a folder tale.
folder_entry(path, full_name, summary) ==
    IF path = folders[1]
        THEN [ folder_name |-> <<basename(normpath(root_path))>>,
               folder_summary |-> summary,
               is_the_root_folder |-> TRUE ]
        ELSE [ folder_name |-> full_name, folder_summary |-> summary ]

\* The handler only logs: folder_tale keeps the value of the folder before.
folder_tale_on_failure_stale(previous) == previous

\* except Exception: ... folder_tale = None
folder_tale_on_failure(previous) == <<>>

\* folder_readme, folder_tale = process_folder(...); except Exception: folder_tale = None;
\* if folder_tale: folders_readmes.append(...); folder_tales["folders"].append(...)
RepoFolderReturn ==
    /\ pc = "folder_ret"
    /\ mode = "repository"
    /\ LET unpacked == folder_result.status = "returned" /\ folder_result.value # <<>>
           readme == IF unpacked THEN <<folder_result.value[1][1]>> ELSE folder_readme
           summary == IF unpacked THEN <<folder_result.value[1][2]>>
                                   ELSE folder_tale_on_failure(folder_tale)
       IN  /\ folder_readme' = readme
           /\ folder_tale' = summary
           /\ IF summary # <<>> /\ summary[1] # ""
                THEN /\ folders_readmes' = Append(folders_readmes, readme[1])
                     /\ folder_tales' = Append(folder_tales,
                            folder_entry(folder_path,
                                         relpath(folder_path, root_path), summary[1]))
                ELSE UNCHANGED << folder_tales, folders_readmes >>
    /\ pc' = "repo_loop"
    /\ UNCHANGED << argVars, earlier_runs, folders, fidx, folderVars, fileVars, budgetVars, last_call >>

\* After the loop: if debug: return None; the root-level summary, root_level.json
\* and README.md.
RepoFinish ==
    /\ pc = "repo_loop"
    /\ fidx = Len(folders)
    /\ IF debug
        THEN /\ pc' = "done"
             /\ UNCHANGED last_call
        ELSE /\ last_call' = [kind |-> "root-level", budget_consulted |-> FALSE]
             /\ pc' \in {"done", "aborted"}
    /\ UNCHANGED << argVars, earlier_runs, repoVars, folderVars, fileVars, budgetVars >>

Next ==
    \/ MainFile
    \/ MainFolder
    \/ MainRepository
    \/ MainFolderReturn
    \/ RepoNextFolder
    \/ RepoFolderReturn
    \/ RepoFinish
    \/ FolderNextFile
    \/ FolderFileReturn
    \/ FolderFinish
    \/ MainFileReturn
    \/ MainFileAgain
    \/ FileDebug
    \/ FileEmpty
    \/ FileCached
    \/ FileUnknown
    \/ FileSplit
    \/ Extract
    \/ Merge
    \/ UnitTale
    \/ FuseTales
    \/ TopLevel
    \/ Save
    \/ FuseDocumentation

Spec == Init /\ [][Next]_vars

\* ------------------------------------------------------------------ claims
InFolderRun == mode # "file"

HasEntry(ts, name) ==
    \E k \in 1..Len(ts) : \E l \in 1..Len(ts[k].folder_files) :
        ts[k].folder_files[l].file_name = name

Count(seq, x) == Cardinality({ i \in 1..Len(seq) : seq[i] = x })

\* C1: in process_folder, when process_file raises for one file, the exception
\* is caught: the file adds no entry to the folder's file list, no file that
\* failed has an entry, and the loop goes on with the next entry of the listing.
C1_FileFailureContained ==
    [][ (pc = "file_ret" /\ InFolderRun /\ result.status = "raised")
            => /\ pc' = "folder_loop"
               /\ tales' = tales
               /\ kidx' = kidx
               /\ <<file_name, result.error>> \in failed'
               /\ \A f \in failed' : ~HasEntry(tales', f[1]) ]_vars

\* A file exceeded the budget, and a later file of the same folder was
\* processed and has its entry.
C1_Witness ==
    /\ pc = "folder_loop"
    /\ \E f \in failed : f[2] = "BudgetExceeded"
    /\ \E name \in FileNames :
        /\ HasEntry(tales, name)
        /\ \A f \in failed : f[1] # name
        /\ \E i, j \in 1..kidx :
            /\ i < j
            /\ Listing[j] = name
            /\ <<Listing[i], "BudgetExceeded">> \in failed

CacheHitCall == ~debug /\ code = "src" /\ entry_tale_file # <<>>

PipelineSteps ==
    {"split", "extract", "merge", "unit", "fuse_tales", "top_summary",
     "unknown_summary", "save"}

\* C2: a non-debug process_file call on a non-empty file whose persisted result
\* exists runs no splitter, extractor, merger, unit documenter, fuser or
\* summarization step and creates no budget, leaves the persisted result as it
\* was, and the record it returns is the persisted one; it returns unless the
\* requested re-injection (fuse_documentation) raises.
C2_CacheShortCircuit ==
    (CacheHitCall /\ pc \in {"fuse_doc", "file_ret"})
        => /\ \A i \in 1..Len(trace) : trace[i] \notin PipelineSteps
           /\ tale_file = entry_tale_file
           /\ big_docs = <<>> /\ short_docs = <<>>
           /\ code_elements_dict = <<>>
           /\ pc = "file_ret" =>
                \/ result = Returned(entry_tale_file[1])
                \/ /\ fuse
                   /\ result.status = "raised"
                   /\ result.error \in {"UnboundLocalError", "RewriteIntegrityFailure"}

\* A cache hit returned the persisted record.
C2_Witness ==
    /\ CacheHitCall
    /\ pc = "file_ret"
    /\ entry_tale_file[1].file_docstring = "D"
    /\ result = Returned(entry_tale_file[1])
    /\ tale_file = entry_tale_file

\* The exception that left main when the run was aborted.
AbortCause ==
    CASE mode = "file" -> result.error
      [] mode = "folder" -> folder_result.error
      [] OTHER -> "ServiceError"

\* C3: whatever the entry mode and wherever a generative-service call fails
\* (the budget is exceeded, the service fails), the failure is contained and
\* does not abort the run.
C3_RunNeverAborts ==
    pc = "aborted" => AbortCause \notin {"BudgetExceeded", "ServiceError"}

FreshCall == Len(trace) >= 1 /\ trace[1] = "split"

Rank(step) ==
    CASE step = "split" -> 1
      [] step = "extract" -> 2
      [] step = "merge" -> 3
      [] step = "unit" -> 4
      [] step = "fuse_tales" -> 5
      [] step = "top_summary" -> 6
      [] step = "save" -> 7
      [] step = "fuse_documentation" -> 8
      [] step = "aggregate" -> 9
      [] step = "write" -> 10
      [] OTHER -> 0

Occurs(step) == \E i \in 1..Len(trace) : trace[i] = step

\* C4: within one process_file run every extractor call precedes the merge,
\* the merge precedes every unit-documenter call, every unit-documenter call
\* precedes the fuser; the merge happens after one extractor call per coarse
\* chunk and the fuser after one unit-documenter call per fine chunk (or none
\* when there is nothing to document); the merged summaries follow the coarse
\* chunk order and the fragments handed to the fuser the fine chunk order.
C4_FixedOrder ==
    FreshCall
        => /\ \A i, j \in 1..Len(trace) : i < j => Rank(trace[i]) <= Rank(trace[j])
           /\ Count(trace, "merge") <= 1 /\ Count(trace, "fuse_tales") <= 1
           /\ Occurs("merge")
                => /\ Count(trace, "extract") = Len(big_docs)
                   /\ Len(extracted) = Len(big_docs)
                   /\ \A k, l \in 1..Len(code_elements_dict[1].summary) :
                        k < l => code_elements_dict[1].summary[k]
                                    < code_elements_dict[1].summary[l]
                   /\ \A i \in 1..Len(big_docs) :
                        extracted[i] # <<>>
                            <=> \E k \in 1..Len(code_elements_dict[1].summary) :
                                    code_elements_dict[1].summary[k] = big_docs[i]
           /\ \A j \in 1..Len(tales_list) : tales_list[j].chunk = short_docs[j]
           /\ Count(trace, "unit") = Len(tales_list)
           /\ Occurs("fuse_tales")
                => /\ \/ Len(tales_list) = Len(short_docs)
                      \/ tales_list = <<>> /\ ~HasElements(code_elements_copy[1])
                   /\ tale[1].docs = fuse_tales(tales_list, code_elements_dict[1])[1].docs

\* Two coarse chunks were extracted, merged, documented and fused, and the
\* file's result was returned.
C4_Witness ==
    /\ pc = "file_ret"
    /\ result.status = "returned"
    /\ Len(big_docs) = 2
    /\ Len(code_elements) = 2
    /\ Len(tales_list) >= 1
    /\ Occurs("fuse_tales")

\* C5: every generative-service call of the run is issued with the session's
\* budget consulted for it.
C5_EveryCallBudgeted == last_call.budget_consulted

\* C6: the budget consulted for a call holds all the spend the run has
\* registered so far, in this file and in the files before it, so that the
\* run's total spend stays within one ceiling (and the call it was exceeded by).
C6_SharedCeiling ==
    /\ (pc \in {"extract", "unit"} /\ spent < SpendCap)
            => budget_manager[1].current_cost = spent
    /\ spent <= max_budget + CallCost

RECURSIVE Flatten(_)
Flatten(seqs) == IF seqs = <<>> THEN <<>> ELSE Head(seqs) \o Flatten(Tail(seqs))

ContainedFailures ==
    {"BudgetExceeded", "ServiceError", "UnboundLocalError", "RewriteIntegrityFailure"}

\* C7: a coarse chunk the extractor yields nothing for is skipped: the merger
\* gets the element sets of the other chunks in their chunk order, and the file
\* goes on to fusion, summary and the persisted result; when such a file's
\* processing returns, the result has been persisted, and when it raises, a
\* budget, service or aggregator failure raised it.
C7_ExtractionGapTolerated ==
    FreshCall
        => /\ code_elements = Flatten(extracted)
           /\ Occurs("merge")
                => code_elements_dict[1] = prepare_code_elements(Flatten(extracted))
           /\ (pc = "file_ret" /\ \E i \in 1..Len(extracted) : extracted[i] = <<>>)
                => \/ /\ result.status = "returned"
                      /\ Occurs("fuse_tales") /\ Occurs("top_summary") /\ Occurs("save")
                      /\ tale_file = <<result.value[1]>>
                   \/ /\ result.status = "raised"
                      /\ result.error \in ContainedFailures

\* The first of two coarse chunks yielded nothing, the second a class; the
\* file was documented, fused, persisted and returned.
C7_Witness ==
    /\ pc = "file_ret"
    /\ result.status = "returned"
    /\ extracted = << <<>>, <<ElementSet(2, {"C"}, {})>> >>
    /\ code_elements_dict[1].summary = <<2>>
    /\ Occurs("unit")
    /\ tale_file = <<result.value[1]>>

\* C8: when the fuser returns unmatched fragments, the file's processing goes
\* on: the fused result gets its top-level description, is persisted and is
\* returned, unless the summary call or the requested re-injection raises.
C8_FusionErrorsTolerated ==
    (errors # <<>> /\ pc = "file_ret")
        => \/ /\ result.status = "raised"
              /\ result.error = "ServiceError"
              /\ ~Occurs("save")
           \/ /\ Occurs("save")
              /\ tale_file = tale
              /\ tale[1].docs = fuse_tales(tales_list, code_elements_dict[1])[1].docs
              /\ tale[1].file_docstring \in SummaryTexts
              /\ \/ result = Returned(tale[1])
                 \/ /\ fuse
                    /\ result.status = "raised"
                    /\ result.error \in {"UnboundLocalError", "RewriteIntegrityFailure"}

\* The fuser matched one fragment and returned another as an error; the
\* result was persisted and returned.
C8_Witness ==
    /\ pc = "file_ret"
    /\ errors # <<>>
    /\ result.status = "returned"
    /\ result.value[1].docs # {}
    /\ result.value[1].file_docstring = "D"
    /\ tale_file = result.value

AggregatorFailures == {"UnboundLocalError", "RewriteIntegrityFailure"}

\* C9: when the aggregator fails (document raises, or the extension has no
\* aggregator), fuse_documentation raises and <output>/<file_name> is what it
\* was: not created, not truncated, not written.
C9_FailedFuseWritesNothing ==
    (Occurs("fuse_documentation") /\ ~Occurs("write"))
        => /\ result.status = "raised"
           /\ result.error \in AggregatorFailures
           /\ fused_file = entry_fused_file

\* aggregator.document raised for a file whose target existed: it is unchanged.
C9_Witness ==
    /\ pc = "file_ret"
    /\ result.error = "RewriteIntegrityFailure"
    /\ entry_fused_file = "old"
    /\ fused_file = "old"

\* C10: with fuse = false no aggregator is invoked and <output>/<file_name> is
\* not written, after fresh processing and after a cache hit.
C10_NoFuseNoWrite ==
    ~fuse
        => /\ pc # "fuse_doc"
           /\ fused_file = entry_fused_file
           /\ \A i \in 1..Len(trace) :
                trace[i] \notin {"fuse_documentation", "aggregate", "write"}

\* Without fuse a file was processed, persisted and returned, its target untouched.
C10_Witness ==
    /\ ~fuse
    /\ pc = "file_ret"
    /\ result.status = "returned"
    /\ Occurs("save")
    /\ entry_fused_file = "old"
    /\ fused_file = "old"

GenerativeSteps == {"extract", "unit", "top_summary", "unknown_summary"}

\* C11: with debug set no generative-service call is issued, whatever the
\* entry mode: no extractor, unit-documenter or summarization step runs, no
\* budget is created and nothing is spent; process_file, process_folder and
\* process_repository return their placeholders before any such call.
C11_DebugIssuesNoCall ==
    debug
        => /\ last_call = NoCall
           /\ \A i \in 1..Len(trace) : trace[i] \notin GenerativeSteps
           /\ budget_manager = <<>>
           /\ spent = 0
           /\ pc # "aborted"
           /\ pc = "file_ret" => result = Returned([file_docstring |-> "-"])
           /\ pc = "folder_ret" => folder_result = Returned(<<"-", "-">>)

\* A debug run over the repository ended with both folders recorded from
\* their placeholders.
C11_Witness ==
    /\ debug
    /\ mode = "repository"
    /\ pc = "done"
    /\ Len(folder_tales) = 2
    /\ \A k \in 1..2 : folder_tales[k].folder_summary = "-"

\* C12: the element context of the unit documenter is prepared on a copy; the
\* merged tree stays what the merger returned: the fuser gets that tree and
\* the top-level description is made from that tree's summary, while the copy
\* has lost the summary and the empty classes and methods lists.
C12_CleaningLeavesTree ==
    (FreshCall /\ Occurs("merge"))
        => LET merged == prepare_code_elements(code_elements)
           IN  /\ code_elements_dict = <<merged>>
               /\ DOMAIN code_elements_dict[1] = {"summary", "classes", "methods"}
               /\ code_elements_copy = <<clean_copy(merged)>>
               /\ Occurs("fuse_tales")
                    => /\ tale[1].docs = fuse_tales(tales_list, merged)[1].docs
                       /\ errors = fuse_tales(tales_list, merged)[2]
               /\ Occurs("top_summary") => summaries = <<merged.summary>>

\* The copy lost its summary and its empty methods list, and the file went
\* through the fuser and the top-level summary with the merged tree intact.
C12_Witness ==
    /\ Occurs("top_summary")
    /\ Occurs("unit")
    /\ code_elements_dict[1].summary # <<>>
    /\ code_elements_dict[1].classes # {}
    /\ code_elements_dict[1].methods = {}
    /\ DOMAIN code_elements_copy[1] = {"classes"}
    /\ summaries = <<code_elements_dict[1].summary>>

\* The merged tree has no class and no method.
NothingToDocument == code_elements_dict[1].classes = {} /\ code_elements_dict[1].methods = {}

\* C13: the unit documenter is invoked only when the merged tree has a class
\* or a method: without any, no unit call is issued and the fuser receives an
\* empty fragment list; with some, the fuser is reached after exactly one unit
\* call per fine chunk and receives as many fragments as there are fine chunks.
C13_UnitCallsOnlyForElements ==
    (FreshCall /\ Occurs("merge"))
        => /\ NothingToDocument => (~Occurs("unit") /\ tales_list = <<>>)
           /\ Occurs("fuse_tales")
                => IF NothingToDocument
                    THEN /\ Count(trace, "unit") = 0
                         /\ tales_list = <<>>
                         /\ tale[1].docs = {}
                    ELSE /\ Count(trace, "unit") = Len(short_docs)
                         /\ Len(tales_list) = Len(short_docs)
                         /\ \A j \in 1..Len(short_docs) : tales_list[j].chunk = short_docs[j]

\* The extractor found a summary but no class and no method in a file of two
\* fine chunks: the fuser was reached without any unit call.
C13_Witness ==
    /\ Occurs("fuse_tales")
    /\ code_elements_dict[1].summary # <<>>
    /\ NothingToDocument
    /\ Len(short_docs) = 2
    /\ tales_list = <<>>
    /\ ~Occurs("unit")

\* The failures of the steps from the split to the top-level summary.
PipelineFailures == {"KeyError", "BudgetExceeded", "ServiceError"}

\* C14: <file>.json is written only once the extraction, the merge, the unit
\* documentation, the fusion and the top-level summary of the file have all
\* completed; a file that fails at one of these steps leaves no <file>.json,
\* and a later run over it finds no persisted result and processes it from
\* the start.
C14_ArtifactOnlyAfterSuccess ==
    /\ tale_file # entry_tale_file
            => /\ FreshCall
               /\ Occurs("save")
               /\ Count(trace, "extract") = Len(big_docs)
               /\ Occurs("merge") /\ Occurs("fuse_tales") /\ Occurs("top_summary")
               /\ NothingToDocument \/ Count(trace, "unit") = Len(short_docs)
               /\ tale_file = tale
               /\ tale[1].file_docstring \in SummaryTexts
    /\ (result.status = "raised" /\ result.error \in PipelineFailures)
            => /\ ~Occurs("save")
               /\ tale_file = <<>>
    /\ (earlier_runs # <<>>
            /\ earlier_runs[Len(earlier_runs)].error \in PipelineFailures)
            => /\ entry_tale_file = <<>>
               /\ ~CacheHitCall
               /\ Len(trace) >= 1 => trace[1] \in {"split", "unknown_summary"}

\* The first run over a file exceeded the budget; the run after it found no
\* persisted result, processed the file from the split on and persisted it.
C14_Witness ==
    /\ earlier_runs # <<>>
    /\ earlier_runs[1].error = "BudgetExceeded"
    /\ FreshCall
    /\ Occurs("save")
    /\ tale_file = tale

\* The entries of the folder's file list that name the file.
EntriesOf(ts, name) ==
    { <<k, l>> \in (1..Len(ts)) \X (1..MaxFiles) :
        l <= Len(ts[k].folder_files) /\ ts[k].folder_files[l].file_name = name }

\* C15: in process_folder, a non-empty file whose persisted result holds a
\* non-empty top-level description when its processing ends gets exactly one
\* entry of the folder's file list, with its name and that description, with
\* and without fuse.
C15_PersistedFileListed ==
    [][ (pc = "file_ret" /\ InFolderRun /\ ~debug /\ code = "src"
            /\ tale_file # <<>> /\ tale_file[1].file_docstring # "")
            => /\ Cardinality(EntriesOf(tales', file_name)) = 1
               /\ \A e \in EntriesOf(tales', file_name) :
                    tales'[e[1]].folder_files[e[2]]
                        = [ file_name |-> file_name,
                            file_description |-> tale_file[1].file_docstring ] ]_vars

\* C16: in process_repository, a folder whose process_folder call raises or
\* returns no (readme, overview) pair is skipped: nothing is added to the
\* folders list or to the folder readmes, no folder tale of an earlier folder
\* is kept for it, and the loop goes on with the folders that remain.
C16_FailedFolderSkipped ==
    [][ (pc = "folder_ret" /\ mode = "repository"
            /\ (folder_result.status = "raised" \/ folder_result = ReturnedNone))
            => /\ folder_tales' = folder_tales
               /\ folders_readmes' = folders_readmes
               /\ folder_tale' = <<>>
               /\ pc' = "repo_loop"
               /\ fidx' = fidx /\ folders' = folders ]_vars

\* The first folder was recorded with its overview; the second one failed and
\* was skipped, the first one's readme still being in folder_readme.
C16_Witness ==
    /\ mode = "repository"
    /\ pc = "repo_loop"
    /\ fidx = 2
    /\ folder_result.status = "raised"
    /\ Len(folder_tales) = 1
    /\ folder_tales[1].folder_summary = "D"
    /\ folder_readme = <<"D">>
    /\ folder_tale = <<>>

\* C17: process_repository takes the folders shallowest first, and the entry
\* it records for a folder that yields a folder tale is, for the first folder
\* (the root, folders[0]), named after the repository and flagged
\* is_the_root_folder, and for every other folder named by its relative path
\* and not flagged.
C17_RootEntryFlagged ==
    [][ (pc = "folder_ret" /\ mode = "repository"
            /\ Len(folder_tales') = Len(folder_tales) + 1)
            => /\ \A i, j \in 1..Len(folders) :
                    i < j => count_slash(folders[i]) <= count_slash(folders[j])
               /\ folder_path = with_slash(folders[fidx])
               /\ LET recorded == folder_tales'[Len(folder_tales')]
                  IN  IF fidx = 1
                        THEN recorded = [ folder_name |-> <<basename(normpath(root_path))>>,
                                          folder_summary |-> folder_result.value[1][2],
                                          is_the_root_folder |-> TRUE ]
                        ELSE recorded = [ folder_name |-> relpath(folders[fidx], root_path),
                                          folder_summary |-> folder_result.value[1][2] ] ]_vars

====
